---- MODULE Spec2Model ----
(***************************************************************************)
(* A model of the retrieval / chat core of the RAG backend:                *)
(*   backend/src/utils/chromadb.js          query cache, queryCollection   *)
(*   backend/src/services/chatService.js    chatWithContext, cachedQuery   *)
(*   backend/src/services/ragService.js     queryWithContext               *)
(*   backend/src/services/documentService.js, routes/ragRoutes.js          *)
(*   backend/src/controllers/chatController.js                             *)
(*   backend/src/utils/data_loader.js       chunkText                      *)
(*                                                                         *)
(* Every `await` of the code is a suspension point: the code between two   *)
(* awaits runs as one action (Node's single-threaded event loop).  The     *)
(* vector store and the LLM backend are the environment: each outstanding  *)
(* call is resolved or rejected by a separate action.                      *)
(***************************************************************************)
EXTENDS Integers, Sequences, FiniteSets, TLC

VARIABLES
    now,            \* Date.now(), in milliseconds
    queryCache,     \* chromadb.js queryCache: Map, as the sequence of its entries in insertion order
    cache,          \* chatService.js cache (cachedQuery): Map, in insertion order
    index,          \* the vector store: per collection name, the ids of its documents
    conversations,  \* chatService.js conversations: Map conversationId -> messages
    files,          \* chatController.js: data/conversations/<id>.json, per conversationId
                    \* (empty: no file).  Of a message, req and stale are history: the
                    \* request it belongs to, and whether it was appended before the
                    \* conversation was last cleared
    ollamaClient,   \* the module-level ollamaClient handle of chatService.js / ragService.js
    slots,          \* the requests in flight or last answered, one per client connection,
                    \* and the warmup run of each service; of a request's record, calls,
                    \* prior, start, epoch, purged, stored, history, llm, req, failed,
                    \* produced, gone, chats, writes, seen and issued are history: what it did and saw, for the
                    \* properties; events is what was written to its SSE response
    nextReq,        \* number of requests started so far (gives each request its serial number)
    ticks,          \* number of clock advances so far
    filled,         \* history: per key, the last query that populated it, unless removed since
    useOrder,       \* history: the keys of queryCache inserted or read since the start, least recent first
    evicted,        \* history: the last capacity eviction, with the key that was least recently used then
    mutations,      \* history: number of completed changes of the collection's documents
    chunking        \* data_loader.js: the chunkText call in progress or last returned

vars == <<now, queryCache, cache, index, conversations, files, ollamaClient,
          slots, nextReq, ticks, filled, useOrder, evicted, mutations, chunking>>

-----------------------------------------------------------------------------
(* Program constants *)

MAX_CACHE_SIZE == 100
CACHE_TTL == 30 * 60 * 1000
maxAttempts == 3
HISTORY_WINDOW == 10
CACHED_QUERY_LIMIT == 100
COLLECTION_NAME == "rag_documents"
DEFAULT_OVERLAP == 200

(* Bounds of the model *)

MaxTicks == 2
MaxDocs == 1
MaxRequests == 3
MaxChats == 6
MaxEvictRequests == 2
PriorTurns == 12
MaxWindowChats == 2
MaxBudgetChats == 2
MaxClearRequests == 4
MaxWarmupRequests == 3
MaxStreams == 2
MaxTokens == 2
MaxPersistRequests == 3
MaxDeleteRequests == 3
MaxKeyRequests == 3
MaxLiveChats == 2
MaxAdds == 3
MaxTextLength == 4
MaxChunkSize == 3
MaxOverlap == 2

Slots == {"s1", "s2"}

\* the warmup runs of the two services (initialWarmup, then the setInterval callback)
Timers == {"wchat", "wrag"}

-----------------------------------------------------------------------------
(* Sequences *)

Min(a, b) == IF a < b THEN a ELSE b

Max(a, b) == IF a > b THEN a ELSE b

RECURSIVE Join(_, _)
\* Array.prototype.join: the elements separated by sep
Join(texts, sep) ==
    IF Len(texts) = 0 THEN ""
    ELSE IF Len(texts) = 1 THEN texts[1]
    ELSE texts[1] \o sep \o Join(Tail(texts), sep)

\* a window of n elements before the newest one, and the newest
SliceLastAndNewest(seq, n) ==
    SubSeq(seq, Max(1, Len(seq) - n), Len(seq))

\* Array.prototype.slice(-n): the last n elements, oldest first
SliceLast(seq, n) ==
    SubSeq(seq, Max(1, Len(seq) - n + 1), Len(seq))

\* Map.prototype.has, for a Map kept as the sequence of its entries (records with a key)
MapHas(m, k) == \E i \in 1..Len(m) : m[i].key = k

\* Map.prototype.get of a key the Map has
MapGet(m, k) == m[CHOOSE i \in 1..Len(m) : m[i].key = k]

\* Map.prototype.delete
MapDelete(m, k) == SelectSeq(m, LAMBDA e : e.key # k)

\* Map.prototype.set: an existing key keeps its place in the iteration order,
\* a new key goes last
MapSet(m, e) ==
    IF MapHas(m, e.key)
    THEN [i \in 1..Len(m) |-> IF m[i].key = e.key THEN e ELSE m[i]]
    ELSE Append(m, e)

MapKeys(m) == {m[i].key : i \in 1..Len(m)}

-----------------------------------------------------------------------------
(* chromadb.js: the query cache *)

\* JSON.stringify(options) for the option objects the callers pass
JSONstringify(options) ==
    CASE options = "none"  -> "{}"
      [] options = "where" -> "{\"where\":{}}"
      [] options = "mmr"   -> "{\"mmr\":{\"enabled\":true,\"diversityBias\":0.3}}"

generateCacheKey(name, nResults, queryTexts, options) ==
    name \o "_" \o ToString(nResults) \o "_" \o Join(queryTexts, "|")
         \o "_" \o JSONstringify(options)

\* the key addToCache removes when the cache is full: the first in iteration order
OldestKey(qc) == qc[1].key

\* addToCache without its queryCache.set
addToCacheDropped(qc, cacheKey, results, t) == qc

\* addToCache without its capacity test
addToCacheNoEvict(qc, cacheKey, results, t) ==
    MapSet(qc, [key |-> cacheKey, timestamp |-> t, results |-> results])

addToCache(qc, cacheKey, results, t) ==
    LET room == IF Len(qc) >= MAX_CACHE_SIZE THEN MapDelete(qc, OldestKey(qc)) ELSE qc
    IN  MapSet(room, [key |-> cacheKey, timestamp |-> t, results |-> results])

\* the expiry test with >= for >
ExpiredAtTtl(age) == age >= CACHE_TTL

\* the expiry test of getFromCache
Expired(age) == age > CACHE_TTL

\* getFromCache: hit tells whether results were returned (null otherwise), cache
\* is the Map afterwards (an expired entry is deleted by the read)
getFromCache(qc, cacheKey, t) ==
    IF ~MapHas(qc, cacheKey)
    THEN [hit |-> FALSE, results |-> <<>>, cache |-> qc]
    ELSE LET cachedData == MapGet(qc, cacheKey)
             age == t - cachedData.timestamp
         IN  IF Expired(age)
             THEN [hit |-> FALSE, results |-> <<>>, cache |-> MapDelete(qc, cacheKey)]
             ELSE [hit |-> TRUE, results |-> cachedData.results, cache |-> qc]

\* collection.query of the vector store: for each query text, the nResults
\* nearest documents of the collection (the store ranks them; here in index order)
CollectionQuery(docs, nResults, queryTexts) ==
    [i \in 1..Len(queryTexts) |-> SubSeq(docs, 1, Min(nResults, Len(docs)))]

-----------------------------------------------------------------------------
(* Requests *)

Idle ==
    [pc |-> "idle", kind |-> "none", req |-> 0,
     name |-> "", n |-> 0, texts |-> <<>>, opts |-> "none", key |-> "",
     attempts |-> 0, calls |-> 0, hit |-> FALSE, prior |-> {}, start |-> 0,
     purged |-> FALSE, stored |-> FALSE,
     out |-> "none", res |-> <<>>,
     epoch |-> 0, doc |-> "",
     conv |-> "", msg |-> "", docs |-> <<>>, prompt |-> <<>>, history |-> <<>>,
     llm |-> "none", status |-> 0, answer |-> "",
     ensured |-> "none", svc |-> "", model |-> 0, step |-> 0, results |-> <<>>,
     failed |-> {},
     route |-> "", events |-> <<>>, ended |-> FALSE, produced |-> <<>>, gone |-> FALSE,
     chats |-> 0, writes |-> <<>>, seen |-> <<>>, issued |-> 0]

\* the record of an answered chat or query request: what the handler answered
Answered(sl, status, llm, answer) ==
    [Idle EXCEPT !.pc = "done", !.kind = sl.kind, !.req = sl.req, !.conv = sl.conv,
                 !.msg = sl.msg, !.out = sl.out, !.docs = sl.docs,
                 !.attempts = sl.attempts, !.calls = sl.calls,
                 !.chats = sl.chats, !.writes = sl.writes,
                 !.llm = llm, !.status = status, !.answer = answer]

\* a request takes the first connection slot that has no request in flight
Answerable(s) == slots[s].pc \in {"idle", "done"}

Free(s) == Answerable(s) /\ \A t \in Slots : (t # s /\ Answerable(t)) => s = "s1"

\* the arguments queryCollection is called with by its direct callers
\* (documentService.queryDocuments passes any limit, collection name and filters)
QueryArgs ==
    { [name |-> COLLECTION_NAME, n |-> 3, texts |-> <<"f1">>,     opts |-> "none"],
      [name |-> COLLECTION_NAME, n |-> 3, texts |-> <<"a|b">>,    opts |-> "none"],
      [name |-> COLLECTION_NAME, n |-> 5, texts |-> <<"f1">>,     opts |-> "where"] }

\* a cache that earlier queries "f1", "f2", ... have filled to its capacity,
\* while the collection was still empty
WarmCache ==
    [i \in 1..MAX_CACHE_SIZE |->
        [key |-> generateCacheKey(COLLECTION_NAME, 3, <<"f" \o ToString(i)>>, "none"),
         timestamp |-> 0,
         results |-> CollectionQuery(<<>>, 3, <<"f" \o ToString(i)>>)]]

-----------------------------------------------------------------------------
(* History variables of the cache *)

\* the first key of the Map, in its order, that was not used since the start ("" if none)
FirstUnused(qc, used) ==
    LET unused == {i \in 1..Len(qc) : \A j \in 1..Len(used) : used[j] # qc[i].key}
    IN  IF unused = {} THEN ""
        ELSE qc[CHOOSE i \in unused : \A j \in unused : i <= j].key

\* the least recently used key of a non-empty Map: its oldest entry never used
\* since the start (those were inserted before all uses since, in Map order),
\* else the least recently used of the others
LeastRecentlyUsed(qc, used) ==
    IF FirstUnused(qc, used) # "" THEN FirstUnused(qc, used) ELSE Head(used)

\* what a step that leaves the Map as qc does to the history variables:
\* added is the set of entries a completed query populated in this step,
\* touched the key inserted or read with a hit (as a sequence, empty if none),
\* gone the keys the step may have removed, capacity tells whether the step
\* ran addToCache on a full Map
CacheHistory(qc, added, touched, gone, capacity) ==
    LET removed == {k \in gone : MapHas(queryCache, k) /\ ~MapHas(qc, k)}
        addedKeys == {a.key : a \in added}
    IN  /\ filled' = {f \in filled : f.key \notin removed /\ f.key \notin addedKeys}
                        \cup added
        /\ useOrder' = SelectSeq(useOrder,
                           LAMBDA k : k \notin removed /\ \A j \in 1..Len(touched) : touched[j] # k)
                         \o touched
        /\ evicted' = IF capacity /\ removed # {}
                      THEN {[key |-> k, lru |-> LeastRecentlyUsed(queryCache, useOrder)]
                              : k \in removed}
                      ELSE evicted

CacheUntouched == UNCHANGED <<queryCache, filled, useOrder, evicted>>

-----------------------------------------------------------------------------
(* chromadb.js queryCollection, and what its callers do with its outcome *)

\* chatService.js cachedQuery, after queryCollection returned: cache.set, then
\* the oldest entry is deleted when the Map holds more than 100
CachedQueryStore(c, queryText, result) ==
    LET c1 == MapSet(c, [key |-> queryText, results |-> result])
    IN  IF Len(c1) > CACHED_QUERY_LIMIT THEN MapDelete(c1, c1[1].key) ELSE c1

\* results.documents[0] when it is a non-empty list, else nothing
FoundDocs(out, res) ==
    IF out = "returned" /\ Len(res) > 0 /\ Len(res[1]) > 0 THEN res[1] ELSE <<>>

SystemMessage == [role |-> "system", content |-> "instructions"]

\* the context message: results.documents[0].join, sent only when non-empty
ContextMessages(docs) ==
    IF Len(docs) > 0
    THEN << [role |-> "system", content |-> "Context information:" \o Join(docs, ",")] >>
    ELSE << >>

\* chatWithContext without the try/catch around its retrieval: a retrieval
\* error leaves the function and the handler answers 500
ChatAssembleStrict(sl, out, res) ==
    IF out = "threw"
    THEN Answered([sl EXCEPT !.out = out], 500, "none", "")
    ELSE [sl EXCEPT !.pc = "chat", !.out = out, !.res = res, !.docs = FoundDocs(out, res),
                    !.chats = @ + 1,
                    !.history = SliceLast(conversations[sl.conv], HISTORY_WINDOW)]

\* chatService.js chatWithContext from the end of retrieval to the chat call:
\* the prompt is the system message, the context message, then the last 10
\* messages of the conversation as {role, content}
ChatAssemble(sl, out, res) ==
    LET docs == FoundDocs(out, res)
        historyMessages == SliceLast(conversations[sl.conv], HISTORY_WINDOW)
    IN  [sl EXCEPT !.pc = "chat", !.out = out, !.res = res, !.docs = docs,
                   !.chats = @ + 1,
                   !.history = historyMessages,
                   !.prompt = <<SystemMessage>> \o ContextMessages(docs)
                              \o [i \in 1..Len(historyMessages) |->
                                    [role |-> historyMessages[i].role,
                                     content |-> historyMessages[i].content]]]

\* ragService.js queryWithContext after queryCollection: a throw leaves the
\* function through its catch, generateResponse rethrows and the route answers
\* 500; otherwise the prompt is system, context, user query
RagAssemble(sl, out, res) ==
    IF out = "threw"
    THEN Answered([sl EXCEPT !.out = out], 500, "none", "")
    ELSE LET docs == FoundDocs(out, res)
         IN  [sl EXCEPT !.pc = "chat", !.out = out, !.res = res, !.docs = docs,
                        !.chats = @ + 1,
                        !.prompt = <<SystemMessage>> \o ContextMessages(docs)
                                   \o << [role |-> "user", content |-> sl.msg] >>]

\* res.write of an SSE event on the request's response, and res.end
\* (history: late tells whether the client had disconnected before the write)
StreamWrite(sl, event) ==
    [sl EXCEPT !.events = Append(@, [type |-> event.type, token |-> event.token,
                                     marker |-> event.marker, documents |-> event.documents,
                                     late |-> sl.gone])]

ChunkEvent(token, marker) ==
    [type |-> "chunk", token |-> token, marker |-> marker, documents |-> <<>>]

DoneEvent(documents) ==
    [type |-> "done", token |-> "", marker |-> FALSE, documents |-> documents]

ErrorEvent == [type |-> "error", token |-> "", marker |-> FALSE, documents |-> <<>>]

\* the catch of the streaming route: the error event, then res.end
StreamFails(sl, llm) ==
    [StreamWrite(sl, ErrorEvent) EXCEPT !.pc = "done", !.ended = TRUE, !.llm = llm,
                                        !.status = 200]

\* ragService.js streamQueryWithContext after queryCollection: a throw
\* reaches the catch of the route; otherwise the prompt is system, context,
\* user query and the streaming chat call is made
StreamAssemble(sl, out, res) ==
    IF out = "threw"
    THEN StreamFails([sl EXCEPT !.out = out], "none")
    ELSE LET docs == FoundDocs(out, res)
         IN  [sl EXCEPT !.pc = "streaming", !.out = out, !.res = res, !.docs = docs,
                        !.prompt = <<SystemMessage>> \o ContextMessages(docs)
                                   \o << [role |-> "user", content |-> sl.msg] >>]

\* the caller's code from the return (or throw) of queryCollection to its next await
Continue(sl, out, res) ==
    CASE sl.kind = "chat" -> ChatAssemble(sl, out, res)
      [] sl.kind = "rag"  -> RagAssemble(sl, out, res)
      [] sl.kind = "stream" -> StreamAssemble(sl, out, res)
      [] OTHER -> [sl EXCEPT !.pc = "done", !.out = out, !.res = res,
                             !.status = IF out = "returned" THEN 200 ELSE 500]

\* queryCollection returned or threw in this step, in slot s whose record is sl
Finish(s, sl, out, res) ==
    /\ slots' = [slots EXCEPT ![s] = Continue(sl, out, res)]
    /\ cache' = IF sl.kind = "cachedQuery" /\ out = "returned"
                THEN CachedQueryStore(cache, sl.texts[1], res)
                ELSE cache

\* queryCollection from its call to its first await: the key, the cache read,
\* and on a miss the first collection.query
QueryCollectionBegin(s, sl) ==
    LET cacheKey == generateCacheKey(sl.name, sl.n, sl.texts, sl.opts)
        got == getFromCache(queryCache, cacheKey, now)
        called == [sl EXCEPT !.key = cacheKey, !.hit = got.hit, !.start = now,
                             !.epoch = mutations,
                             !.prior = {f \in filled : f.key = cacheKey},
                             !.purged = ~MapHas(got.cache, cacheKey),
                             !.attempts = 0,
                             !.calls = IF got.hit THEN 0 ELSE 1,
                             !.seen = IF got.hit THEN <<>> ELSE index[sl.name],
                             !.issued = mutations,
                             !.pc = "querying"]
    IN  /\ queryCache' = got.cache
        /\ CacheHistory(got.cache, {}, IF got.hit THEN <<cacheKey>> ELSE <<>>, {cacheKey}, FALSE)
        /\ IF got.hit
           THEN Finish(s, called, "returned", got.results)
           ELSE slots' = [slots EXCEPT ![s] = called] /\ cache' = cache

NewRequest(kind) ==
    [Idle EXCEPT !.kind = kind, !.req = IF kind = "chat" THEN nextReq + 1 ELSE 0]

\* a caller invokes queryCollection(collection, nResults, queryTexts, options)
StartQuery(s, a) ==
    /\ Free(s)
    /\ nextReq' = nextReq + 1
    /\ QueryCollectionBegin(s, [NewRequest("query") EXCEPT
            !.name = a.name, !.n = a.n, !.texts = a.texts, !.opts = a.opts])
    /\ UNCHANGED <<chunking, now, index, conversations, files, ollamaClient, ticks, mutations>>

\* chatService.js cachedQuery(collection, queryText, 2)
StartCachedQuery(s, queryText) ==
    /\ Free(s)
    /\ nextReq' = nextReq + 1
    /\ LET sl == [NewRequest("cachedQuery") EXCEPT
                    !.name = COLLECTION_NAME, !.n = 2, !.texts = <<queryText>>]
       IN  IF MapHas(cache, queryText)
           THEN /\ slots' = [slots EXCEPT ![s] =
                       [sl EXCEPT !.pc = "done", !.out = "returned", !.status = 200,
                                  !.hit = TRUE, !.res = MapGet(cache, queryText).results]]
                /\ cache' = cache
                /\ CacheUntouched
           ELSE QueryCollectionBegin(s, sl)
    /\ UNCHANGED <<chunking, now, index, conversations, files, ollamaClient, ticks, mutations>>

\* collection.query returned results to queryCollection: they are cached and
\* returned (history: the populating call's arguments and the number of
\* changes of the collection completed when it was issued)
QueryReturns(s, results) ==
    LET sl == slots[s]
        qc == addToCache(queryCache, sl.key, results, now)
    IN  /\ queryCache' = qc
        /\ CacheHistory(qc, {[key |-> sl.key, at |-> now, results |-> results,
                               epoch |-> mutations, issued |-> sl.issued,
                               name |-> sl.name, n |-> sl.n, texts |-> sl.texts,
                               opts |-> sl.opts]},
                        <<sl.key>>,
                        IF Len(queryCache) > 0 THEN {OldestKey(queryCache)} ELSE {},
                        Len(queryCache) >= MAX_CACHE_SIZE)
        /\ Finish(s, [sl EXCEPT !.stored = /\ MapHas(qc, sl.key)
                                            /\ MapGet(qc, sl.key).results = results],
                  "returned", results)

\* the pending collection.query resolves with the documents the collection
\* holds now
QueryResolve(s) ==
    /\ slots[s].pc = "querying"
    /\ QueryReturns(s, CollectionQuery(index[slots[s].name], slots[s].n, slots[s].texts))
    /\ UNCHANGED <<chunking, now, index, conversations, files, ollamaClient, nextReq, ticks, mutations>>

\* the pending collection.query resolves with the documents the collection
\* held when the call was issued: the store answered before a change that
\* completed while the response was on its way
QueryResolveEarlier(s) ==
    /\ slots[s].pc = "querying"
    /\ slots[s].seen # index[slots[s].name]
    /\ QueryReturns(s, CollectionQuery(slots[s].seen, slots[s].n, slots[s].texts))
    /\ UNCHANGED <<chunking, now, index, conversations, files, ollamaClient, nextReq, ticks, mutations>>

\* the retry loop giving up at the first failure
QueryRejectOnce(s) ==
    /\ slots[s].pc = "querying"
    /\ Finish(s, [slots[s] EXCEPT !.attempts = @ + 1], "threw", <<>>)
    /\ CacheUntouched
    /\ UNCHANGED <<chunking, now, index, conversations, files, ollamaClient, nextReq, ticks, mutations>>

\* the pending collection.query rejects: the third failure is rethrown, an
\* earlier one is followed by the backoff timer
QueryReject(s) ==
    /\ slots[s].pc = "querying"
    /\ LET sl == [slots[s] EXCEPT !.attempts = @ + 1]
       IN  IF sl.attempts >= maxAttempts
           THEN Finish(s, sl, "threw", <<>>)
           ELSE slots' = [slots EXCEPT ![s] = [sl EXCEPT !.pc = "backoff"]] /\ cache' = cache
    /\ CacheUntouched
    /\ UNCHANGED <<chunking, now, index, conversations, files, ollamaClient, nextReq, ticks, mutations>>

\* the backoff timer fires: the loop calls collection.query again
BackoffDone(s) ==
    /\ slots[s].pc = "backoff"
    /\ slots' = [slots EXCEPT ![s] = [@ EXCEPT !.pc = "querying", !.calls = @ + 1,
                                           !.seen = index[slots[s].name], !.issued = mutations]]
    /\ CacheUntouched
    /\ UNCHANGED <<chunking, now, cache, index, conversations, files, ollamaClient, nextReq, ticks, mutations>>

\* the clock advances
Tick(d) ==
    /\ ticks < MaxTicks
    /\ ticks' = ticks + 1
    /\ now' = now + d
    /\ CacheUntouched
    /\ UNCHANGED <<chunking, cache, index, conversations, files, ollamaClient, slots, nextReq, mutations>>

-----------------------------------------------------------------------------
(* Adding and deleting documents *)

CollectionNames == {COLLECTION_NAME}

\* requests that are adding a document
Adding == {s \in Slots : slots[s].kind \in {"addDocument", "addRoute"} /\ slots[s].pc # "done"}

\* the collection holds, with the adds in flight, fewer than MaxDocs documents
HasRoom == Len(index[COLLECTION_NAME]) + Cardinality(Adding) < MaxDocs

\* documentService.js addDocument: the id is a fresh uuid
StartAddDocument(s) ==
    /\ Free(s)
    /\ nextReq' = nextReq + 1
    /\ slots' = [slots EXCEPT ![s] = [NewRequest("addDocument") EXCEPT
            !.pc = "collection", !.name = COLLECTION_NAME,
            !.doc = "u" \o ToString(nextReq + 1)]]
    /\ CacheUntouched
    /\ UNCHANGED <<chunking, now, cache, index, conversations, files, ollamaClient, ticks, mutations>>

\* the add-document endpoint (ragRoutes.js addDocument): 400 without title or
\* content, else the id is Date.now().toString()
StartAddRoute(s, complete) ==
    /\ Free(s)
    /\ nextReq' = nextReq + 1
    /\ slots' = [slots EXCEPT ![s] =
            IF complete
            THEN [NewRequest("addRoute") EXCEPT
                    !.pc = "collection", !.name = COLLECTION_NAME, !.doc = ToString(now)]
            ELSE [NewRequest("addRoute") EXCEPT !.pc = "done", !.status = 400]]
    /\ CacheUntouched
    /\ UNCHANGED <<chunking, now, cache, index, conversations, files, ollamaClient, ticks, mutations>>

\* collection.add resolves (the store keeps one document per id)
AddResolve(s) ==
    /\ slots[s].pc = "add"
    /\ LET sl == slots[s]
           fresh == \A i \in 1..Len(index[sl.name]) : index[sl.name][i] # sl.doc
       IN  /\ index' = [index EXCEPT ![sl.name] = IF fresh THEN Append(@, sl.doc) ELSE @]
           /\ mutations' = IF fresh THEN mutations + 1 ELSE mutations
           /\ slots' = [slots EXCEPT ![s] = [sl EXCEPT !.pc = "done", !.stored = fresh,
                    !.status = IF sl.kind = "addRoute" THEN 201 ELSE 200]]
    /\ CacheUntouched
    /\ UNCHANGED <<chunking, now, cache, conversations, files, ollamaClient, nextReq, ticks>>

\* chromadb.js deleteAllDocuments(collection): first collection.get
StartDeleteAll(s) ==
    /\ Free(s)
    /\ nextReq' = nextReq + 1
    /\ slots' = [slots EXCEPT ![s] = [NewRequest("deleteAll") EXCEPT
            !.pc = "get", !.name = COLLECTION_NAME]]
    /\ CacheUntouched
    /\ UNCHANGED <<chunking, now, cache, index, conversations, files, ollamaClient, ticks, mutations>>

\* collection.get resolves: with no ids there is nothing to delete and the
\* function returns true; otherwise collection.delete is called with the ids
GetResolve(s) ==
    /\ slots[s].pc = "get"
    /\ LET allIds == index[slots[s].name]
       IN  slots' = [slots EXCEPT ![s] =
               IF Len(allIds) > 0
               THEN [@ EXCEPT !.pc = "delete", !.docs = allIds]
               ELSE [@ EXCEPT !.pc = "done", !.status = 200]]
    /\ CacheUntouched
    /\ UNCHANGED <<chunking, now, cache, index, conversations, files, ollamaClient, nextReq, ticks, mutations>>

\* collection.delete resolves: the cache is cleared and the function returns true
DeleteResolve(s) ==
    /\ slots[s].pc = "delete"
    /\ LET sl == slots[s]
           gone == {sl.docs[i] : i \in 1..Len(sl.docs)}
       IN  /\ index' = [index EXCEPT ![sl.name] = SelectSeq(@, LAMBDA d : d \notin gone)]
           /\ slots' = [slots EXCEPT ![s] = [sl EXCEPT !.pc = "done", !.status = 200]]
    /\ mutations' = mutations + 1
    /\ queryCache' = <<>>
    /\ filled' = {}
    /\ useOrder' = <<>>
    /\ evicted' = evicted
    /\ UNCHANGED <<chunking, now, cache, conversations, files, ollamaClient, nextReq, ticks>>

\* a pending collection.add, collection.get or collection.delete rejects: the
\* function throws
StoreReject(s) ==
    /\ slots[s].pc \in {"add", "get", "delete"}
    /\ slots' = [slots EXCEPT ![s] = [@ EXCEPT !.pc = "done", !.status = 500]]
    /\ CacheUntouched
    /\ UNCHANGED <<chunking, now, cache, index, conversations, files, ollamaClient, nextReq, ticks, mutations>>

-----------------------------------------------------------------------------
(* The LLM connection *)

\* new Ollama(...): a handle that is not the one it replaces (0 is null)
NewHandle(old) == IF old = 1 THEN 2 ELSE 1

\* getOllamaClient: creates the handle when there is none
getOllamaClient(client) == IF client = 0 THEN NewHandle(client) ELSE client

\* the service whose module-level handle a request uses
Service(sl) ==
    IF sl.kind \in {"rag", "stream"} \/ (sl.kind = "warmup" /\ sl.svc = "rag")
    THEN "rag" ELSE "chat"

\* MODELS_TO_WARMUP of a service
MODELS_TO_WARMUP(svc) == IF svc = "chat" THEN <<"llama3.2">> ELSE <<"llama3.2:1b">>

\* the awaited LLM calls of warmupModel: one chat in chatService.js; generate,
\* the Promise.all of the batch, generate, generate in ragService.js
WarmupSteps(svc) == IF svc = "chat" THEN 1 ELSE 4

-----------------------------------------------------------------------------
(* Chat requests: chatController.js processChatMessage, chatService.js chatWithContext *)

ConversationIds == {"c1"}

UserMessages == {"", "hi"}

\* POST /chat without the test of the message
StartChatUnchecked(s, c, m) ==
    /\ Free(s)
    /\ nextReq' = nextReq + 1
    /\ slots' = [slots EXCEPT ![s] =
            [NewRequest("chat") EXCEPT !.pc = "ensure", !.conv = c, !.msg = m,
                 !.name = COLLECTION_NAME, !.n = 3, !.texts = <<m>>]]
    /\ ollamaClient' = [ollamaClient EXCEPT !["chat"] = getOllamaClient(@)]
    /\ CacheUntouched
    /\ UNCHANGED <<chunking, now, cache, index, conversations, files, ticks, mutations>>

\* POST /chat: 400 without a message, else chatWithContext runs up to its
\* first await, the list-models probe of ensureOllamaConnection
StartChat(s, c, m) ==
    /\ Free(s)
    /\ nextReq' = nextReq + 1
    /\ IF m = ""
       THEN /\ slots' = [slots EXCEPT ![s] =
                   [NewRequest("chat") EXCEPT !.pc = "done", !.status = 400, !.conv = c]]
            /\ UNCHANGED ollamaClient
       ELSE /\ slots' = [slots EXCEPT ![s] =
                   [NewRequest("chat") EXCEPT !.pc = "ensure", !.conv = c, !.msg = m,
                        !.name = COLLECTION_NAME, !.n = 3, !.texts = <<m>>]]
            /\ ollamaClient' = [ollamaClient EXCEPT !["chat"] = getOllamaClient(@)]
    /\ CacheUntouched
    /\ UNCHANGED <<chunking, now, cache, index, conversations, files, ticks, mutations>>

\* POST /query (ragRoutes.js queryWithContext, ragService.js generateResponse and
\* queryWithContext): 400 without a query, else up to the list-models probe
StartRag(s, q) ==
    /\ Free(s)
    /\ nextReq' = nextReq + 1
    /\ IF q = ""
       THEN /\ slots' = [slots EXCEPT ![s] =
                   [NewRequest("rag") EXCEPT !.pc = "done", !.status = 400]]
            /\ UNCHANGED ollamaClient
       ELSE /\ slots' = [slots EXCEPT ![s] =
                   [NewRequest("rag") EXCEPT !.pc = "ensure", !.msg = q,
                        !.name = COLLECTION_NAME, !.n = 3, !.texts = <<q>>,
                        !.opts = "mmr"]]
            /\ ollamaClient' = [ollamaClient EXCEPT !["rag"] = getOllamaClient(@)]
    /\ CacheUntouched
    /\ UNCHANGED <<chunking, now, cache, index, conversations, files, ticks, mutations>>

\* after ensureOllamaConnection returned connected: chatWithContext appends
\* the user message to the conversation and both services await
\* getOrCreateCollection; warmupAllModels starts warmupModel of its first model
AfterEnsure(s, connected) ==
    LET sl == slots[s]
    IN  /\ slots' = [slots EXCEPT ![s] =
               IF sl.kind = "warmup"
               THEN [sl EXCEPT !.ensured = connected, !.pc = "warm", !.model = 1, !.step = 1]
               ELSE [sl EXCEPT !.ensured = connected, !.pc = "collection"]]
        /\ conversations' =
              IF sl.kind = "chat"
              THEN [conversations EXCEPT ![sl.conv] = Append(@,
                       [role |-> "user", content |-> sl.msg, timestamp |-> now,
                        req |-> sl.req, stale |-> FALSE])]
              ELSE conversations

\* the list-models probe succeeds: ensureOllamaConnection returns true
EnsureResolve(s) ==
    /\ slots[s].pc = "ensure"
    /\ AfterEnsure(s, "true")
    /\ CacheUntouched
    /\ UNCHANGED <<chunking, now, cache, index, files, ollamaClient, nextReq, ticks, mutations>>

\* the catch of ensureOllamaConnection without its getOllamaClient()
EnsureRejectNoReconnect(s) ==
    /\ slots[s].pc = "ensure"
    /\ ollamaClient' = [ollamaClient EXCEPT ![Service(slots[s])] = 0]
    /\ AfterEnsure(s, "false")
    /\ CacheUntouched
    /\ UNCHANGED <<chunking, now, cache, index, files, nextReq, ticks, mutations>>

\* the probe fails: the handle is dropped and a new one created, the result is false
EnsureReject(s) ==
    /\ slots[s].pc = "ensure"
    /\ ollamaClient' = [ollamaClient EXCEPT ![Service(slots[s])] = NewHandle(@)]
    /\ AfterEnsure(s, "false")
    /\ CacheUntouched
    /\ UNCHANGED <<chunking, now, cache, index, files, nextReq, ticks, mutations>>

\* getOrCreateCollection resolves: an add goes on to collection.add, a chat or
\* query request to queryCollection
CollectionResolve(s) ==
    /\ slots[s].pc = "collection"
    /\ IF slots[s].kind \in {"chat", "rag", "stream"}
       THEN QueryCollectionBegin(s, slots[s])
       ELSE /\ slots' = [slots EXCEPT ![s] = [@ EXCEPT !.pc = "add"]]
            /\ cache' = cache
            /\ CacheUntouched
    /\ UNCHANGED <<chunking, now, index, conversations, files, ollamaClient, nextReq, ticks, mutations>>

\* getOrCreateCollection rejects: chatWithContext catches it with the retrieval
\* errors, the other callers throw
CollectionReject(s) ==
    /\ slots[s].pc = "collection"
    /\ IF slots[s].kind \in {"chat", "rag", "stream"}
       THEN Finish(s, slots[s], "threw", <<>>)
       ELSE /\ slots' = [slots EXCEPT ![s] = [@ EXCEPT !.pc = "done", !.status = 500]]
            /\ cache' = cache
    /\ CacheUntouched
    /\ UNCHANGED <<chunking, now, index, conversations, files, ollamaClient, nextReq, ticks, mutations>>

\* history: whether the request's user message was appended before the
\* conversation was last cleared
StaleRequest(sl) ==
    \E i \in 1..Len(conversations[sl.conv]) :
        /\ conversations[sl.conv][i].req = sl.req
        /\ conversations[sl.conv][i].role = "user"
        /\ conversations[sl.conv][i].stale

\* processChatMessage writing the two turns without the file's earlier content
ChatResolveOverwrites(s) ==
    /\ slots[s].pc = "chat"
    /\ LET sl == slots[s]
           content == "answer"
       IN  /\ slots' = [slots EXCEPT ![s] =
                  Answered([sl EXCEPT !.writes = IF sl.kind = "chat" THEN <<"ok">> ELSE <<>>],
                           200, "ok", content)]
           /\ IF sl.kind = "chat"
              THEN /\ conversations' = [conversations EXCEPT ![sl.conv] = Append(@,
                          [role |-> "assistant", content |-> content, timestamp |-> now,
                           req |-> sl.req, stale |-> FALSE])]
                   /\ files' = [files EXCEPT ![sl.conv] =
                          << [role |-> "user", content |-> sl.msg, timestamp |-> now,
                              req |-> sl.req, stale |-> StaleRequest(sl)],
                             [role |-> "assistant", content |-> content, timestamp |-> now,
                              req |-> sl.req, stale |-> FALSE] >>]
              ELSE UNCHANGED <<conversations, files>>
    /\ CacheUntouched
    /\ UNCHANGED <<chunking, now, cache, index, ollamaClient, nextReq, ticks, mutations>>

\* the LLM chat call resolves.  chatWithContext appends the assistant message
\* and returns; processChatMessage appends both turns to the conversation file
\* and answers 200.  The /query route answers 200 with the answer and sources
ChatResolve(s) ==
    /\ slots[s].pc = "chat"
    /\ LET sl == slots[s]
           content == "answer"
       IN  /\ slots' = [slots EXCEPT ![s] =
                  Answered([sl EXCEPT !.writes = IF sl.kind = "chat" THEN <<"ok">> ELSE <<>>],
                           200, "ok", content)]
           /\ IF sl.kind = "chat"
              THEN /\ conversations' = [conversations EXCEPT ![sl.conv] = Append(@,
                          [role |-> "assistant", content |-> content, timestamp |-> now,
                           req |-> sl.req, stale |-> FALSE])]
                   /\ files' = [files EXCEPT ![sl.conv] = @ \o
                          << [role |-> "user", content |-> sl.msg, timestamp |-> now,
                              req |-> sl.req, stale |-> StaleRequest(sl)],
                             [role |-> "assistant", content |-> content, timestamp |-> now,
                              req |-> sl.req, stale |-> FALSE] >>]
              ELSE UNCHANGED <<conversations, files>>
    /\ CacheUntouched
    /\ UNCHANGED <<chunking, now, cache, index, ollamaClient, nextReq, ticks, mutations>>

\* the LLM chat call resolves and chatWithContext appends the assistant message
\* and returns, but fs.writeFileSync of the conversation file throws:
\* processChatMessage's catch answers 500 and the answer is not sent
ChatResolveWriteFails(s) ==
    /\ slots[s].pc = "chat"
    /\ slots[s].kind = "chat"
    /\ LET sl == slots[s]
           content == "answer"
       IN  /\ slots' = [slots EXCEPT ![s] =
                  Answered([sl EXCEPT !.writes = <<"failed">>], 500, "ok", "")]
           /\ conversations' = [conversations EXCEPT ![sl.conv] = Append(@,
                  [role |-> "assistant", content |-> content, timestamp |-> now,
                   req |-> sl.req, stale |-> FALSE])]
    /\ CacheUntouched
    /\ UNCHANGED <<chunking, now, cache, index, files, ollamaClient, nextReq, ticks, mutations>>

\* a handler that answers an LLM failure with a canned assistant turn
ChatRejectFallback(s) ==
    /\ slots[s].pc = "chat"
    /\ LET sl == slots[s]
       IN  /\ slots' = [slots EXCEPT ![s] = Answered(sl, 200, "failed", "sorry")]
           /\ conversations' =
                 IF sl.kind = "chat"
                 THEN [conversations EXCEPT ![sl.conv] = Append(@,
                          [role |-> "assistant", content |-> "sorry", timestamp |-> now,
                           req |-> sl.req, stale |-> FALSE])]
                 ELSE conversations
    /\ CacheUntouched
    /\ UNCHANGED <<chunking, now, cache, index, files, ollamaClient, nextReq, ticks, mutations>>

\* a failed generation followed by a second chat call within the request
ChatRejectRetry(s) ==
    /\ slots[s].pc = "chat"
    /\ slots' = [slots EXCEPT ![s] =
            IF @.chats < 2 THEN [@ EXCEPT !.chats = @ + 1]
            ELSE Answered(@, 500, "failed", "")]
    /\ CacheUntouched
    /\ UNCHANGED <<chunking, now, cache, index, conversations, files, ollamaClient, nextReq, ticks, mutations>>

\* the LLM chat call rejects: chatWithContext (queryWithContext) throws and the
\* handler answers 500
ChatReject(s) ==
    /\ slots[s].pc = "chat"
    /\ slots' = [slots EXCEPT ![s] = Answered(slots[s], 500, "failed", "")]
    /\ CacheUntouched
    /\ UNCHANGED <<chunking, now, cache, index, conversations, files, ollamaClient, nextReq, ticks, mutations>>

-----------------------------------------------------------------------------
(* data_loader.js: chunkText *)

NoChunking ==
    [pc |-> "idle", text |-> <<>>, size |-> 0, overlap |-> 0, startIndex |-> 0,
     chunks |-> <<>>]

\* a text of the given length: its characters, told apart by their position
TextOf(length) == [i \in 1..length |-> i]

\* String.prototype.substring(a, b): both indexes are clamped to 0..length
\* and swapped when the first is the larger
Substring(text, a, b) ==
    LET ca == Max(0, Min(a, Len(text)))
        cb == Max(0, Min(b, Len(text)))
    IN  SubSeq(text, Min(ca, cb) + 1, Max(ca, cb))

\* the pushes the model follows a chunkText call for: more than any call
\* that advances through its text makes
ChunkLimit == MaxTextLength + 3

\* chunkText(text, size, overlap) is called
CallChunkText(length, size, overlap) ==
    /\ chunking.pc \in {"idle", "returned"}
    /\ chunking' = [NoChunking EXCEPT !.pc = "loop", !.text = TextOf(length),
                                      !.size = size, !.overlap = overlap]
    /\ CacheUntouched
    /\ UNCHANGED <<now, cache, index, conversations, files, ollamaClient, slots, nextReq,
                   ticks, mutations>>

\* chunkTextBySentences(text, maxChunkSize) whose sentence splitter throws:
\* its catch calls chunkText(text, maxChunkSize), overlap taking its default
ChunkTextBySentencesFallback(length, maxChunkSize) ==
    CallChunkText(length, maxChunkSize, DEFAULT_OVERLAP)

\* one iteration of the while loop of chunkText, or its end when the start
\* index has reached the end of the text
ChunkTextLoop ==
    /\ chunking.pc = "loop"
    /\ Len(chunking.chunks) < ChunkLimit
    /\ LET text == chunking.text
           startIndex == chunking.startIndex
       IN  IF startIndex < Len(text)
           THEN LET endIndex == Min(startIndex + chunking.size, Len(text))
                    pushed == Append(chunking.chunks, Substring(text, startIndex, endIndex))
                    next == endIndex - chunking.overlap
                IN  chunking' =
                       IF next + chunking.size >= Len(text)
                       THEN [chunking EXCEPT !.pc = "returned", !.startIndex = next,
                                !.chunks = IF endIndex < Len(text)
                                           THEN Append(pushed, Substring(text, next, Len(text)))
                                           ELSE pushed]
                       ELSE [chunking EXCEPT !.startIndex = next, !.chunks = pushed]
           ELSE chunking' = [chunking EXCEPT !.pc = "returned"]
    /\ CacheUntouched
    /\ UNCHANGED <<now, cache, index, conversations, files, ollamaClient, slots, nextReq,
                   ticks, mutations>>

-----------------------------------------------------------------------------
(* Specifications *)

EntriesOf(m) ==
    {[key |-> m[i].key, at |-> m[i].timestamp, results |-> m[i].results, epoch |-> 0,
      issued |-> 0, name |-> COLLECTION_NAME, n |-> 3, texts |-> <<"f" \o ToString(i)>>,
      opts |-> "none"]
        : i \in 1..Len(m)}

\* cachedQuery's Map after 100 distinct queries against the empty collection
WarmCachedQuery ==
    [i \in 1..CACHED_QUERY_LIMIT |->
        [key |-> "f" \o ToString(i),
         results |-> CollectionQuery(<<>>, 2, <<"f" \o ToString(i)>>)]]

InitCommon ==
    /\ now = 0
    /\ conversations = [c \in ConversationIds |-> <<>>]
    /\ files = [c \in ConversationIds |-> <<>>]
    /\ ollamaClient = [chat |-> 0, rag |-> 0]
    /\ chunking = NoChunking
    /\ slots = [s \in Slots \cup Timers |-> Idle]
    /\ nextReq = 0
    /\ ticks = 0
    /\ evicted = {}
    /\ mutations = 0

\* a freshly started process, its collection empty or holding a document
Init ==
    /\ InitCommon
    /\ index \in [CollectionNames -> {<<>>, <<"d1">>}]
    /\ queryCache = <<>>
    /\ cache = <<>>
    /\ filled = {}
    /\ useOrder = <<>>

\* a freshly started process with an empty collection
InitCache ==
    /\ InitCommon
    /\ index = [c \in CollectionNames |-> <<>>]
    /\ queryCache = <<>>
    /\ cache = <<>>
    /\ filled = {}
    /\ useOrder = <<>>

\* a process one of whose caches earlier queries have filled, while the
\* collection was empty, before a document was added
InitWarm ==
    /\ InitCommon
    /\ index = [c \in CollectionNames |-> <<"d1">>]
    /\ \E warm \in {"queryCache", "cache"} :
          /\ queryCache = IF warm = "queryCache" THEN WarmCache ELSE <<>>
          /\ cache = IF warm = "cache" THEN WarmCachedQuery ELSE <<>>
    /\ filled = EntriesOf(SubSeq(queryCache, 1, Min(1, Len(queryCache))))
    /\ useOrder = <<>>

CachedQueryTexts == {"q"}

\* the queries of the retrieval specification
CacheArgs == {a \in QueryArgs : a.texts = <<"f1">>}

\* the queries made against the full cache
EvictArgs == {a \in QueryArgs : a.opts = "none"}

\* retrieval and ingestion: queryCollection callers, document adds and
\* deleteAllDocuments, under a moving clock
NextCache ==
    \/ \E s \in Slots : \E a \in CacheArgs : nextReq < MaxRequests /\ StartQuery(s, a)
    \/ \E s \in Slots : QueryResolve(s)
    \/ \E s \in Slots : QueryReject(s)
    \/ \E s \in Slots : BackoffDone(s)
    \/ \E s \in Slots : nextReq < MaxRequests /\ HasRoom /\ StartAddDocument(s)
    \/ \E s \in Slots : \E complete \in BOOLEAN :
          nextReq < MaxRequests /\ HasRoom /\ StartAddRoute(s, complete)
    \/ \E s \in Slots : CollectionResolve(s)
    \/ \E s \in Slots : CollectionReject(s)
    \/ \E s \in Slots : AddResolve(s)
    \/ \E s \in Slots : nextReq < MaxRequests /\ StartDeleteAll(s)
    \/ \E s \in Slots : GetResolve(s)
    \/ \E s \in Slots : DeleteResolve(s)
    \/ \E s \in Slots : StoreReject(s)
    \/ Tick(CACHE_TTL)

SpecCache == InitCache /\ [][NextCache]_vars

\* the two caches at their capacity: queryCollection and cachedQuery callers,
\* deleteAllDocuments and the clock
NextEvict ==
    \/ \E s \in Slots : \E a \in EvictArgs : nextReq < MaxEvictRequests /\ StartQuery(s, a)
    \/ \E s \in Slots : \E q \in CachedQueryTexts : nextReq < MaxEvictRequests /\ StartCachedQuery(s, q)
    \/ \E s \in Slots : QueryResolve(s)
    \/ \E s \in Slots : QueryReject(s)
    \/ \E s \in Slots : BackoffDone(s)
    \/ \E s \in Slots : nextReq < MaxEvictRequests /\ StartDeleteAll(s)
    \/ \E s \in Slots : GetResolve(s)
    \/ \E s \in Slots : DeleteResolve(s)
    \/ \E s \in Slots : StoreReject(s)
    \/ Tick(CACHE_TTL + 1)

SpecEvict == InitWarm /\ [][NextEvict]_vars

\* chat requests on the conversations
NextChat ==
    \/ \E s \in Slots : \E c \in ConversationIds : \E m \in UserMessages : nextReq < MaxRequests /\ StartChat(s, c, m)
    \/ \E s \in Slots : EnsureResolve(s)
    \/ \E s \in Slots : EnsureReject(s)
    \/ \E s \in Slots : CollectionResolve(s)
    \/ \E s \in Slots : CollectionReject(s)
    \/ \E s \in Slots : QueryResolve(s)
    \/ \E s \in Slots : QueryReject(s)
    \/ \E s \in Slots : BackoffDone(s)
    \/ \E s \in Slots : ChatResolve(s)
    \/ \E s \in Slots : ChatReject(s)

SpecChat == Init /\ [][NextChat]_vars

\* POST /query requests, with documents being added
NextRag ==
    \/ \E s \in Slots : \E q \in UserMessages : nextReq < MaxRequests /\ StartRag(s, q)
    \/ \E s \in Slots : nextReq < MaxRequests /\ HasRoom /\ StartAddDocument(s)
    \/ \E s \in Slots : EnsureResolve(s)
    \/ \E s \in Slots : EnsureReject(s)
    \/ \E s \in Slots : CollectionResolve(s)
    \/ \E s \in Slots : CollectionReject(s)
    \/ \E s \in Slots : AddResolve(s)
    \/ \E s \in Slots : QueryResolve(s)
    \/ \E s \in Slots : QueryReject(s)
    \/ \E s \in Slots : BackoffDone(s)
    \/ \E s \in Slots : ChatResolve(s)
    \/ \E s \in Slots : ChatReject(s)

SpecRag == Init /\ [][NextRag]_vars

\* the vector store is down and the LLM healthy: chat requests on one conversation
NextChatDegraded ==
    \/ \E s \in Slots : \E c \in ConversationIds : nextReq < MaxChats /\ StartChat(s, c, "hi")
    \/ \E s \in Slots : EnsureResolve(s)
    \/ \E s \in Slots : CollectionReject(s)
    \/ \E s \in Slots : ChatResolve(s)

SpecChatDegraded == Init /\ [][NextChatDegraded]_vars

\* a conversation of PriorTurns turns that earlier requests have left: user
\* and assistant turns alternating, the last request's answer missing when
\* PriorTurns is odd (its LLM call failed)
PriorConversation ==
    [k \in 1..PriorTurns |->
        [role |-> IF k % 2 = 1 THEN "user" ELSE "assistant",
         content |-> IF k % 2 = 1 THEN "hi" ELSE "answer",
         timestamp |-> 0,
         req |-> (k + 1) \div 2,
         stale |-> FALSE]]

PriorRequests == (PriorTurns + 1) \div 2

\* a process that has answered PriorRequests chat requests on each conversation
InitHistory ==
    /\ now = 0
    /\ conversations = [c \in ConversationIds |-> PriorConversation]
    /\ files = [c \in ConversationIds |-> SubSeq(PriorConversation, 1, 2 * (PriorTurns \div 2))]
    /\ ollamaClient = [chat |-> 1, rag |-> 0]
    /\ chunking = NoChunking
    /\ slots = [s \in Slots \cup Timers |-> Idle]
    /\ nextReq = PriorRequests
    /\ ticks = 0
    /\ evicted = {}
    /\ mutations = 0
    /\ index \in [CollectionNames -> {<<>>, <<"d1">>}]
    /\ queryCache = <<>>
    /\ cache = <<>>
    /\ filled = {}
    /\ useOrder = <<>>

\* further chat requests on a conversation with a history
NextHistory ==
    \/ \E s \in Slots : \E c \in ConversationIds :
          nextReq < PriorRequests + MaxWindowChats /\ StartChat(s, c, "hi")
    \/ \E s \in Slots : EnsureResolve(s)
    \/ \E s \in Slots : EnsureReject(s)
    \/ \E s \in Slots : CollectionResolve(s)
    \/ \E s \in Slots : CollectionReject(s)
    \/ \E s \in Slots : QueryResolve(s)
    \/ \E s \in Slots : QueryReject(s)
    \/ \E s \in Slots : BackoffDone(s)
    \/ \E s \in Slots : ChatResolve(s)
    \/ \E s \in Slots : ChatReject(s)

SpecHistory == InitHistory /\ [][NextHistory]_vars

\* warmupAllModels is called (by initialWarmup or by the interval timer): it
\* runs up to the list-models probe of ensureOllamaConnection
WarmupStart(t) ==
    /\ slots[t].pc \in {"idle", "done"}
    /\ nextReq' = nextReq + 1
    /\ LET svc == IF t = "wchat" THEN "chat" ELSE "rag"
       IN  /\ slots' = [slots EXCEPT ![t] =
                  [NewRequest("warmup") EXCEPT !.pc = "ensure", !.svc = svc]]
           /\ ollamaClient' = [ollamaClient EXCEPT ![svc] = getOllamaClient(@)]
    /\ CacheUntouched
    /\ UNCHANGED <<chunking, now, cache, index, conversations, files, ticks, mutations>>

\* warmupModel returned result for the current model: warmupAllModels stores
\* it and goes on to the next model, or returns the results after the last
WarmupModelReturns(sl, result) ==
    LET stored == [sl EXCEPT !.results = Append(@, result)]
    IN  IF sl.model < Len(MODELS_TO_WARMUP(sl.svc))
        THEN [stored EXCEPT !.model = @ + 1, !.step = 1]
        ELSE [stored EXCEPT !.pc = "done", !.out = "returned"]

\* an awaited LLM call of warmupModel resolves: the next call, or true after the last
WarmupStepResolve(t) ==
    /\ slots[t].pc = "warm"
    /\ slots' = [slots EXCEPT ![t] =
            IF @.step < WarmupSteps(@.svc)
            THEN [@ EXCEPT !.step = @ + 1]
            ELSE WarmupModelReturns(@, TRUE)]
    /\ CacheUntouched
    /\ UNCHANGED <<chunking, now, cache, index, conversations, files, ollamaClient, nextReq, ticks, mutations>>

\* warmupModel without its try/catch: the failure leaves warmupAllModels
WarmupStepRejectThrows(t) ==
    /\ slots[t].pc = "warm"
    /\ slots' = [slots EXCEPT ![t] =
            [@ EXCEPT !.pc = "done", !.out = "threw", !.failed = @ \cup {slots[t].model}]]
    /\ CacheUntouched
    /\ UNCHANGED <<chunking, now, cache, index, conversations, files, ollamaClient, nextReq, ticks, mutations>>

\* an awaited LLM call of warmupModel rejects: its catch returns false
WarmupStepReject(t) ==
    /\ slots[t].pc = "warm"
    /\ slots' = [slots EXCEPT ![t] =
            WarmupModelReturns([@ EXCEPT !.failed = @ \cup {slots[t].model}], FALSE)]
    /\ CacheUntouched
    /\ UNCHANGED <<chunking, now, cache, index, conversations, files, ollamaClient, nextReq, ticks, mutations>>

\* warmup runs of both services while chat and /query requests are served,
\* the vector store being down
NextWarmup ==
    \/ \E t \in Timers : nextReq < MaxWarmupRequests /\ WarmupStart(t)
    \/ \E t \in Timers : WarmupStepResolve(t)
    \/ \E t \in Timers : WarmupStepReject(t)
    \/ \E s \in Slots : \E c \in ConversationIds :
          nextReq < MaxWarmupRequests /\ StartChat(s, c, "hi")
    \/ \E s \in Slots : nextReq < MaxWarmupRequests /\ StartRag(s, "hi")
    \/ \E s \in Slots \cup Timers : EnsureResolve(s)
    \/ \E s \in Slots \cup Timers : EnsureReject(s)
    \/ \E s \in Slots : CollectionReject(s)
    \/ \E s \in Slots : ChatResolve(s)
    \/ \E s \in Slots : ChatReject(s)

SpecWarmup == Init /\ [][NextWarmup]_vars

\* DELETE /chat/:conversationId (chatController.js clearConversation): 404
\* when the conversation has no file, else the file is unlinked; the
\* conversation of chatService.js is not touched (its messages become stale)
ClearConversation(s, c) ==
    /\ Free(s)
    /\ nextReq' = nextReq + 1
    /\ IF files[c] = <<>>
       THEN /\ slots' = [slots EXCEPT ![s] =
                   [NewRequest("clear") EXCEPT !.pc = "done", !.conv = c, !.status = 404]]
            /\ UNCHANGED <<files, conversations>>
       ELSE /\ slots' = [slots EXCEPT ![s] =
                   [NewRequest("clear") EXCEPT !.pc = "done", !.conv = c, !.status = 200]]
            /\ files' = [files EXCEPT ![c] = <<>>]
            /\ conversations' = [conversations EXCEPT ![c] =
                   [i \in 1..Len(@) |-> [@[i] EXCEPT !.stale = TRUE]]]
    /\ CacheUntouched
    /\ UNCHANGED <<chunking, now, cache, index, ollamaClient, ticks, mutations>>

\* GET /chat/:conversationId/history (chatController.js getChatHistory): 404
\* when the conversation has no file, else the turns of the file
GetChatHistory(s, c) ==
    /\ Free(s)
    /\ nextReq' = nextReq + 1
    /\ slots' = [slots EXCEPT ![s] =
            IF files[c] = <<>>
            THEN [NewRequest("history") EXCEPT !.pc = "done", !.conv = c, !.status = 404]
            ELSE [NewRequest("history") EXCEPT !.pc = "done", !.conv = c, !.status = 200,
                                               !.history = files[c]]]
    /\ CacheUntouched
    /\ UNCHANGED <<chunking, now, cache, index, conversations, files, ollamaClient, ticks, mutations>>

\* chat requests, clears and history reads on the conversations, the vector
\* store being down
NextClear ==
    \/ \E s \in Slots : \E c \in ConversationIds :
          nextReq < MaxClearRequests /\ StartChat(s, c, "hi")
    \/ \E s \in Slots : \E c \in ConversationIds :
          nextReq < MaxClearRequests /\ ClearConversation(s, c)
    \/ \E s \in Slots : \E c \in ConversationIds :
          nextReq < MaxClearRequests /\ GetChatHistory(s, c)
    \/ \E s \in Slots : EnsureResolve(s)
    \/ \E s \in Slots : CollectionReject(s)
    \/ \E s \in Slots : ChatResolve(s)

SpecClear == Init /\ [][NextClear]_vars

\* the two streaming handlers of the repository: routes/ragRoutes.js relays
\* every callback payload, the later controller skips the completion notice
StreamRoutes == {"ragRoutes", "ragController"}

\* GET /query/stream (streamQueryWithContext of the route): 400 without a
\* query, else the SSE headers are set and ragService.js streamGenerateResponse,
\* streamQueryWithContext run up to the list-models probe
StartStream(s, q, route) ==
    /\ Free(s)
    /\ nextReq' = nextReq + 1
    /\ IF q = ""
       THEN /\ slots' = [slots EXCEPT ![s] =
                   [NewRequest("stream") EXCEPT !.pc = "done", !.status = 400, !.route = route]]
            /\ UNCHANGED ollamaClient
       ELSE /\ slots' = [slots EXCEPT ![s] =
                   [NewRequest("stream") EXCEPT !.pc = "ensure", !.msg = q, !.route = route,
                        !.name = COLLECTION_NAME, !.n = 3, !.texts = <<q>>,
                        !.opts = "mmr"]]
            /\ ollamaClient' = [ollamaClient EXCEPT !["rag"] = getOllamaClient(@)]
    /\ CacheUntouched
    /\ UNCHANGED <<chunking, now, cache, index, conversations, files, ticks, mutations>>

\* the LLM produces a token: onStream calls onToken, the route's callback
\* writes the chunk event
StreamToken(s) ==
    /\ slots[s].pc = "streaming"
    /\ Len(slots[s].produced) < MaxTokens
    /\ LET token == "t" \o ToString(Len(slots[s].produced) + 1)
       IN  slots' = [slots EXCEPT ![s] =
               StreamWrite([@ EXCEPT !.produced = Append(@, token)], ChunkEvent(token, FALSE))]
    /\ CacheUntouched
    /\ UNCHANGED <<chunking, now, cache, index, conversations, files, ollamaClient, nextReq, ticks, mutations>>

\* the generation completes: onComplete calls onToken({done: true}), which the
\* route of ragRoutes.js writes as a chunk event; the chat call resolves, the
\* route writes the documents event and ends the response
StreamComplete(s) ==
    /\ slots[s].pc = "streaming"
    /\ LET sl == slots[s]
           noticed == IF sl.route = "ragRoutes"
                      THEN StreamWrite(sl, ChunkEvent("", TRUE))
                      ELSE sl
       IN  slots' = [slots EXCEPT ![s] =
               [StreamWrite(noticed, DoneEvent(sl.docs)) EXCEPT
                    !.pc = "done", !.ended = TRUE, !.llm = "ok", !.status = 200]]
    /\ CacheUntouched
    /\ UNCHANGED <<chunking, now, cache, index, conversations, files, ollamaClient, nextReq, ticks, mutations>>

\* a catch that ends the response without an error event
StreamRejectSilent(s) ==
    /\ slots[s].pc = "streaming"
    /\ slots' = [slots EXCEPT ![s] =
            [@ EXCEPT !.pc = "done", !.ended = TRUE, !.llm = "failed", !.status = 200]]
    /\ CacheUntouched
    /\ UNCHANGED <<chunking, now, cache, index, conversations, files, ollamaClient, nextReq, ticks, mutations>>

\* the streaming chat call rejects: the services rethrow and the route's catch
\* writes the error event and ends the response
StreamReject(s) ==
    /\ slots[s].pc = "streaming"
    /\ slots' = [slots EXCEPT ![s] = StreamFails(@, "failed")]
    /\ CacheUntouched
    /\ UNCHANGED <<chunking, now, cache, index, conversations, files, ollamaClient, nextReq, ticks, mutations>>

\* the client of a streamed query closes its connection (no handler of the
\* route or the services listens for it)
Disconnect(s) ==
    /\ slots[s].kind = "stream"
    /\ slots[s].pc \notin {"idle", "done"}
    /\ ~slots[s].gone
    /\ slots' = [slots EXCEPT ![s] = [@ EXCEPT !.gone = TRUE]]
    /\ CacheUntouched
    /\ UNCHANGED <<chunking, now, cache, index, conversations, files, ollamaClient, nextReq, ticks, mutations>>

\* streamed queries
NextStream ==
    \/ \E s \in Slots : \E q \in UserMessages : \E route \in StreamRoutes :
          nextReq < MaxStreams /\ StartStream(s, q, route)
    \/ \E s \in Slots : EnsureResolve(s)
    \/ \E s \in Slots : CollectionResolve(s)
    \/ \E s \in Slots : CollectionReject(s)
    \/ \E s \in Slots : QueryResolve(s)
    \/ \E s \in Slots : QueryReject(s)
    \/ \E s \in Slots : BackoffDone(s)
    \/ \E s \in Slots : StreamToken(s)
    \/ \E s \in Slots : StreamComplete(s)
    \/ \E s \in Slots : StreamReject(s)
    \/ \E s \in Slots : Disconnect(s)

SpecStream == Init /\ [][NextStream]_vars

\* the size ceiling of a prompt, in characters
PROMPT_CEILING == 2048

\* a user message longer than the ceiling
LongMessage == "long"

\* String.prototype.length of the message contents of the model (a context
\* block counts 32 characters)
ContentLength(content) ==
    CASE content = ""                       -> 0
      [] content = "hi"                     -> 2
      [] content = "answer"                 -> 6
      [] content = SystemMessage.content    -> 12
      [] content = LongMessage              -> PROMPT_CEILING + 1
      [] OTHER                              -> 32

RECURSIVE PromptSize(_)
\* the character count of a message sequence
PromptSize(messages) ==
    IF Len(messages) = 0 THEN 0
    ELSE ContentLength(Head(messages).content) + PromptSize(Tail(messages))

\* chat requests with short and long messages
NextBudget ==
    \/ \E s \in Slots : \E c \in ConversationIds : \E m \in {"hi", LongMessage} :
          nextReq < MaxBudgetChats /\ StartChat(s, c, m)
    \/ \E s \in Slots : EnsureResolve(s)
    \/ \E s \in Slots : CollectionResolve(s)
    \/ \E s \in Slots : QueryResolve(s)
    \/ \E s \in Slots : ChatResolve(s)
    \/ \E s \in Slots : ChatReject(s)

SpecBudget == Init /\ [][NextBudget]_vars

\* arguments of queryCollection that differ in the collection name and result
\* count (documentService.queryDocuments takes both from its caller) or in the
\* list of query texts
KeyArgs ==
    { [name |-> "docs",   n |-> 3, texts |-> <<"5_x">>,    opts |-> "where"],
      [name |-> "docs_3", n |-> 5, texts |-> <<"x">>,      opts |-> "where"],
      [name |-> "docs",   n |-> 3, texts |-> <<"a|b">>,    opts |-> "none"],
      [name |-> "docs",   n |-> 3, texts |-> <<"a", "b">>, opts |-> "none"] }

\* a freshly started process with two collections, one holding a document
InitKeys ==
    /\ InitCommon
    /\ index = [c \in {a.name : a \in KeyArgs} |-> IF c = "docs" THEN <<"d1">> ELSE <<>>]
    /\ queryCache = <<>>
    /\ cache = <<>>
    /\ filled = {}
    /\ useOrder = <<>>

\* queryCollection callers with these arguments
NextKeys ==
    \/ \E s \in Slots : \E a \in KeyArgs : nextReq < MaxKeyRequests /\ StartQuery(s, a)
    \/ \E s \in Slots : QueryResolve(s)
    \/ \E s \in Slots : QueryReject(s)
    \/ \E s \in Slots : BackoffDone(s)

SpecKeys == InitKeys /\ [][NextKeys]_vars

\* chat requests whose every step but the vector-store query is sure to be
\* answered
NextChatLive ==
    \/ \E s \in Slots : \E c \in ConversationIds : nextReq < MaxLiveChats /\ StartChat(s, c, "hi")
    \/ \E s \in Slots : EnsureResolve(s)
    \/ \E s \in Slots : EnsureReject(s)
    \/ \E s \in Slots : CollectionResolve(s)
    \/ \E s \in Slots : CollectionReject(s)
    \/ \E s \in Slots : QueryResolve(s)
    \/ \E s \in Slots : QueryReject(s)
    \/ \E s \in Slots : BackoffDone(s)
    \/ \E s \in Slots : ChatResolve(s)
    \/ \E s \in Slots : ChatReject(s)

\* the list-models probe, getOrCreateCollection and the LLM chat call are
\* eventually answered and the backoff timer fires; a collection.query call
\* may stay pending for ever (the code sets no timer on it)
SpecChatLive ==
    /\ Init
    /\ [][NextChatLive]_vars
    /\ \A s \in Slots :
          /\ WF_vars(EnsureResolve(s) \/ EnsureReject(s))
          /\ WF_vars(CollectionResolve(s) \/ CollectionReject(s))
          /\ WF_vars(BackoffDone(s))
          /\ WF_vars(ChatResolve(s) \/ ChatReject(s))

\* documents being added through the add-document endpoint and through
\* documentService.js, under a clock that advances by milliseconds
NextAdd ==
    \/ \E s \in Slots : \E complete \in BOOLEAN : nextReq < MaxAdds /\ StartAddRoute(s, complete)
    \/ \E s \in Slots : nextReq < MaxAdds /\ StartAddDocument(s)
    \/ \E s \in Slots : CollectionResolve(s)
    \/ \E s \in Slots : CollectionReject(s)
    \/ \E s \in Slots : AddResolve(s)
    \/ \E s \in Slots : StoreReject(s)
    \/ Tick(1)

SpecAdd == InitCache /\ [][NextAdd]_vars

\* calls of chunkText, directly and as the fallback of chunkTextBySentences
NextChunk ==
    \/ \E length \in 0..MaxTextLength : \E size \in 1..MaxChunkSize : \E overlap \in 0..MaxOverlap :
          CallChunkText(length, size, overlap)
    \/ \E length \in 0..MaxTextLength : \E maxChunkSize \in 1..MaxChunkSize :
          ChunkTextBySentencesFallback(length, maxChunkSize)
    \/ ChunkTextLoop

\* a call that has started keeps running
SpecChunk == Init /\ [][NextChunk]_vars /\ WF_vars(ChunkTextLoop)

\* queryCollection callers while deleteAllDocuments runs
NextDelete ==
    \/ \E s \in Slots : \E a \in CacheArgs : nextReq < MaxDeleteRequests /\ StartQuery(s, a)
    \/ \E s \in Slots : QueryResolve(s)
    \/ \E s \in Slots : QueryResolveEarlier(s)
    \/ \E s \in Slots : QueryReject(s)
    \/ \E s \in Slots : BackoffDone(s)
    \/ \E s \in Slots : nextReq < MaxDeleteRequests /\ StartDeleteAll(s)
    \/ \E s \in Slots : GetResolve(s)
    \/ \E s \in Slots : DeleteResolve(s)
    \/ \E s \in Slots : StoreReject(s)

SpecDelete == Init /\ [][NextDelete]_vars

\* DELETE /clear-all-data (chatController.js clearAllData): every file of the
\* conversations directory is unlinked; the conversations of chatService.js
\* are not touched
ClearAllData(s) ==
    /\ Free(s)
    /\ nextReq' = nextReq + 1
    /\ slots' = [slots EXCEPT ![s] = [NewRequest("clearAll") EXCEPT !.pc = "done", !.status = 200]]
    /\ files' = [c \in ConversationIds |-> <<>>]
    /\ conversations' = [c \in ConversationIds |->
           IF files[c] = <<>> THEN conversations[c]
           ELSE [i \in 1..Len(conversations[c]) |-> [conversations[c][i] EXCEPT !.stale = TRUE]]]
    /\ CacheUntouched
    /\ UNCHANGED <<chunking, now, cache, index, ollamaClient, ticks, mutations>>

\* chat requests whose conversation file may fail to be written, and clears,
\* the vector store being down
NextPersist ==
    \/ \E s \in Slots : \E c \in ConversationIds :
          nextReq < MaxPersistRequests /\ StartChat(s, c, "hi")
    \/ \E s \in Slots : \E c \in ConversationIds :
          nextReq < MaxPersistRequests /\ ClearConversation(s, c)
    \/ \E s \in Slots : nextReq < MaxPersistRequests /\ ClearAllData(s)
    \/ \E s \in Slots : EnsureResolve(s)
    \/ \E s \in Slots : CollectionReject(s)
    \/ \E s \in Slots : ChatResolve(s)
    \/ \E s \in Slots : ChatResolveWriteFails(s)
    \/ \E s \in Slots : ChatReject(s)

SpecPersist == Init /\ [][NextPersist]_vars

-----------------------------------------------------------------------------
(* Properties *)

\* the position of a chat request's own user message in its conversation (0 if none)
OwnTurn(sl) ==
    LET turns == conversations[sl.conv]
        own == {i \in 1..Len(turns) : turns[i].req = sl.req /\ turns[i].role = "user"}
    IN  IF own = {} THEN 0 ELSE CHOOSE i \in own : TRUE

\* the turns a history window holds
TurnsOf(history) == {history[j] : j \in 1..Len(history)}

\* C1: a queryCollection call made while the entry an earlier call populated
\* for the same key is still cached and at most CACHE_TTL ms old is a cache
\* hit: it returns at once, with the result the populating call returned, and
\* makes no collection.query call
C1_RepeatedQueryIsCacheHit ==
    \A s \in Slots :
        LET sl == slots[s]
        IN  (/\ sl.kind = "query"
             /\ sl.prior # {}
             /\ \A p \in sl.prior : sl.start - p.at <= CACHE_TTL)
            => /\ sl.pc = "done"
               /\ sl.out = "returned"
               /\ sl.hit
               /\ sl.calls = 0
               /\ \A p \in sl.prior : sl.res = p.results

\* a repeated query answered from the cache
C1_Witness ==
    \E s \in Slots :
        /\ slots[s].kind = "query"
        /\ slots[s].pc = "done"
        /\ slots[s].hit
        /\ slots[s].calls = 0
        /\ \E p \in slots[s].prior :
              /\ slots[s].start - p.at \in 0..CACHE_TTL
              /\ slots[s].res = p.results

\* C2: once a document add or a deleteAllDocuments has completed, a query is
\* not answered from an entry cached before that change: every cache hit
\* serves an entry populated since the last completed change of the documents
C2_NoHitOnEntryOlderThanChange ==
    \A s \in Slots :
        (slots[s].kind = "query" /\ slots[s].hit)
        => \A p \in slots[s].prior : p.epoch = slots[s].epoch

\* C3: neither cache ever holds more than its capacity of 100 entries
C3_CacheSizeBounded ==
    /\ Len(queryCache) <= 100
    /\ Len(cache) <= 100

\* an insertion into the full queryCache, which evicted an entry
C3_Witness ==
    /\ evicted # {}
    /\ Len(queryCache) = MAX_CACHE_SIZE

\* C4: the entry removed when the cache is full is the least recently used one
\* (least recently inserted or read with a hit)
C4_EvictsLeastRecentlyUsed ==
    \A e \in evicted : e.key = e.lru

\* C5: a cache read of an entry older than CACHE_TTL ms is a miss and removes
\* the entry; a read of an entry of age CACHE_TTL or less is a hit
C5_TtlExpiry ==
    \A s \in Slots :
        LET sl == slots[s]
        IN  (sl.kind = "query" /\ sl.prior # {})
            => \A p \in sl.prior :
                  IF sl.start - p.at > CACHE_TTL
                  THEN ~sl.hit /\ sl.purged /\ sl.calls >= 1
                  ELSE sl.hit /\ ~sl.purged /\ sl.calls = 0 /\ sl.res = p.results

\* a read of an expired entry: a miss that removed it
C5_Witness ==
    \E s \in Slots :
        /\ slots[s].kind = "query"
        /\ ~slots[s].hit
        /\ slots[s].purged
        /\ \E p \in slots[s].prior : slots[s].start - p.at > CACHE_TTL

C7_ChatSurvivesRetrievalFailure ==
    \A s \in Slots :
        LET sl == slots[s]
        IN  (sl.kind = "chat" /\ sl.out = "threw")
            => /\ sl.docs = <<>>
               /\ \/ /\ sl.pc = "chat"
                     /\ \A i \in 2..Len(sl.prompt) : sl.prompt[i].role # "system"
                  \/ /\ sl.pc = "done"
                     /\ sl.llm \in {"ok", "failed"}
                     /\ sl.llm = "ok" => (sl.status = 200 /\ sl.answer # "")

\* a chat answered 200 although retrieval failed on a collection with documents
C7_Witness ==
    \E s \in Slots :
        /\ slots[s].kind = "chat"
        /\ slots[s].out = "threw"
        /\ slots[s].pc = "done"
        /\ slots[s].status = 200
        /\ slots[s].docs = <<>>
        /\ index[COLLECTION_NAME] # <<>>

\* C8: when every attempt of the query fails in queryWithContext, the /query
\* request goes on to the LLM without documents and is answered 200 when the
\* LLM answers
C8_RagSurvivesRetrievalFailure ==
    \A s \in Slots :
        LET sl == slots[s]
        IN  (sl.kind = "rag" /\ sl.out = "threw" /\ sl.attempts = 3)
            => /\ sl.docs = <<>>
               /\ \/ sl.pc = "chat"
                  \/ /\ sl.pc = "done"
                     /\ sl.llm \in {"ok", "failed"}
                     /\ sl.llm = "ok" => sl.status = 200

\* C9: when the LLM chat call fails the request is answered with an error and
\* no answer, and no assistant turn of that request is in the conversation or
\* in its file
C9_LlmFailureLeavesNoAssistantTurn ==
    \A s \in Slots :
        LET sl == slots[s]
        IN  (sl.kind = "chat" /\ sl.pc = "done" /\ sl.llm = "failed")
            => /\ sl.status = 500
               /\ sl.answer = ""
               /\ \A i \in 1..Len(conversations[sl.conv]) :
                     ~(/\ conversations[sl.conv][i].req = sl.req
                       /\ conversations[sl.conv][i].role = "assistant")
               /\ \A i \in 1..Len(files[sl.conv]) :
                     ~(/\ files[sl.conv][i].req = sl.req
                       /\ files[sl.conv][i].role = "assistant")

\* a chat whose LLM call failed, its user turn in the conversation
C9_Witness ==
    \E s \in Slots :
        /\ slots[s].kind = "chat"
        /\ slots[s].pc = "done"
        /\ slots[s].llm = "failed"
        /\ \E i \in 1..Len(conversations[slots[s].conv]) :
              /\ conversations[slots[s].conv][i].req = slots[s].req
              /\ conversations[slots[s].conv][i].role = "user"

\* C10: the history sent to the LLM is at most 10 turns, a run of consecutive
\* turns of the conversation oldest first, and holds the request's own user
\* message
C10_HistoryHoldsOwnMessage ==
    \A s \in Slots :
        LET sl == slots[s]
            turns == conversations[sl.conv]
        IN  (sl.kind = "chat" /\ sl.pc = "chat")
            => /\ Len(sl.history) <= 10
               /\ \E k \in 0..Len(turns) :
                     /\ k + Len(sl.history) <= Len(turns)
                     /\ sl.history = SubSeq(turns, k + 1, k + Len(sl.history))
               /\ \E i \in 1..Len(sl.history) :
                     /\ sl.history[i].role = "user"
                     /\ sl.history[i].req = sl.req

\* C11 (as amended): when a conversation holds at least 10 turns before the new
\* user message, the history sent to the LLM is exactly 10 consecutive turns
\* that end at the new user message or later; it holds no turn older than the
\* ninth before the new message, and when nothing was appended since the new
\* message it is the nine turns before it followed by the new message (with
\* 12 prior turns: prior turns 4 to 12, never 1 to 3)
C11_WindowIsLastTenMessages ==
    \A s \in Slots :
        LET sl == slots[s]
            turns == conversations[sl.conv]
            own == OwnTurn(sl)
        IN  (sl.kind = "chat" /\ sl.pc = "chat" /\ own > 10)
            => /\ Len(sl.history) = 10
               /\ \E e \in own..Len(turns) : sl.history = SubSeq(turns, e - 9, e)
               /\ \A i \in 1..(own - 10) : turns[i] \notin TurnsOf(sl.history)
               /\ sl.history[10] = turns[own]
                     => sl.history = SubSeq(turns, own - 9, own)

\* the thirteenth message of a conversation sent with prior turns 4 to 12
C11_Witness ==
    \E s \in Slots :
        /\ slots[s].kind = "chat"
        /\ slots[s].pc = "chat"
        /\ OwnTurn(slots[s]) = 13
        /\ slots[s].history = SubSeq(conversations[slots[s].conv], 4, 13)

\* C11: with 12 prior turns and a window of 10, the history sent holds prior
\* turns 3 to 12, all ten of them, and neither turn 1 nor turn 2, the new user
\* message being sent in addition
C11_WindowHoldsTenPriorTurns ==
    \A s \in Slots :
        LET sl == slots[s]
            turns == conversations[sl.conv]
        IN  (sl.kind = "chat" /\ sl.pc = "chat" /\ OwnTurn(sl) = 13)
            => /\ \A j \in 3..12 : turns[j] \in TurnsOf(sl.history)
               /\ turns[1] \notin TurnsOf(sl.history)
               /\ turns[2] \notin TurnsOf(sl.history)
               /\ \E i \in 1..Len(sl.prompt) :
                     sl.prompt[i] = [role |-> "user", content |-> sl.msg]

\* C12: every prompt chatWithContext sends is the system instruction, then a
\* context message exactly when retrieval returned a document, then the
\* history window oldest first, and its last message is the user message of
\* the same request, also when requests on the conversation overlap
C12_PromptOrderEndsWithOwnMessage ==
    \A s \in Slots :
        LET sl == slots[s]
            turns == conversations[sl.conv]
            ctx == IF sl.docs # <<>> THEN 1 ELSE 0
        IN  (sl.kind = "chat" /\ sl.pc = "chat")
            => /\ sl.prompt[1] = SystemMessage
               /\ Len(sl.prompt) = 1 + ctx + Len(sl.history)
               /\ ctx = 1 => sl.prompt[2] = ContextMessages(sl.docs)[1]
               /\ \A i \in 1..Len(sl.history) :
                     sl.prompt[1 + ctx + i] = [role |-> sl.history[i].role,
                                               content |-> sl.history[i].content]
               /\ \E k \in 0..Len(turns) :
                     /\ k + Len(sl.history) <= Len(turns)
                     /\ sl.history = SubSeq(turns, k + 1, k + Len(sl.history))
               /\ Len(sl.history) > 0
               /\ sl.history[Len(sl.history)].role = "user"
               /\ sl.history[Len(sl.history)].req = sl.req

\* C15: turns are appended in arrival order: in the conversation and in its
\* file, no turn of a request stands after the user turn of a request that
\* arrived later
C15_TurnsInArrivalOrder ==
    \A c \in ConversationIds :
        /\ \A i, j \in 1..Len(conversations[c]) :
              (i < j /\ conversations[c][i].role = "user")
              => conversations[c][i].req <= conversations[c][j].req
        /\ \A i, j \in 1..Len(files[c]) :
              (i < j /\ files[c][i].role = "user")
              => files[c][i].req <= files[c][j].req

\* C16: a chat request without a message is answered 400 at once: it makes no
\* vector-store or LLM call and leaves no turn in the conversation or its file
C16_EmptyMessageRejected ==
    \A s \in Slots :
        LET sl == slots[s]
        IN  (sl.kind = "chat" /\ sl.msg = "")
            => /\ sl.pc = "done"
               /\ sl.status = 400
               /\ sl.calls = 0
               /\ sl.out = "none"
               /\ sl.llm = "none"
               /\ sl.answer = ""
               /\ \A c \in ConversationIds :
                     /\ \A i \in 1..Len(conversations[c]) : conversations[c][i].req # sl.req
                     /\ \A i \in 1..Len(files[c]) : files[c][i].req # sl.req

\* a request without a message answered 400 while another request's turns are
\* in the conversation
C16_Witness ==
    \E s \in Slots :
        /\ slots[s].kind = "chat"
        /\ slots[s].msg = ""
        /\ slots[s].status = 400
        /\ Len(conversations[slots[s].conv]) > 0

\* C13: no prompt over the size ceiling is sent to the LLM: history is
\* trimmed until the prompt fits, and a request whose system message and new
\* user message alone exceed the ceiling fails with a client error without
\* an LLM call
C13_PromptWithinCeiling ==
    \A s \in Slots :
        LET sl == slots[s]
        IN  /\ (sl.kind = "chat" /\ sl.pc = "chat")
                  => /\ PromptSize(sl.prompt) <= PROMPT_CEILING
                     /\ \E i \in 1..Len(sl.prompt) :
                           sl.prompt[i] = [role |-> "user", content |-> sl.msg]
            /\ (/\ sl.kind = "chat"
                /\ sl.pc = "done"
                /\ ContentLength(SystemMessage.content) + ContentLength(sl.msg) > PROMPT_CEILING)
                  => sl.llm = "none" /\ sl.status \in 400..499

\* C14: after a conversation was cleared, getChatHistory returns no turn
\* appended before the clear, and the prompt of a chat request whose message
\* came after the clear holds no turn appended before it
C14_ClearedTurnsAreGone ==
    \A s \in Slots :
        LET sl == slots[s]
        IN  /\ (sl.kind = "history" /\ sl.status = 200)
                  => \A i \in 1..Len(sl.history) : ~sl.history[i].stale
            /\ (/\ sl.kind = "chat"
                /\ sl.pc = "chat"
                /\ \E i \in 1..Len(sl.history) :
                      sl.history[i].req = sl.req /\ ~sl.history[i].stale)
                  => \A i \in 1..Len(sl.history) : ~sl.history[i].stale

\* C17: ensureOllamaConnection never throws: when its probe succeeds it
\* returns true and leaves the handle as it is, when its probe fails it
\* returns false and has replaced the handle by a new one; the handle is not
\* null when it returns
C17_EnsureConnectionResult ==
    [][\A s \in Slots \cup Timers :
          (slots[s].pc = "ensure" /\ slots'[s].pc # "ensure")
          => LET svc == Service(slots[s])
             IN  /\ slots'[s].pc \in {"collection", "warm"}
                 /\ slots'[s].ensured \in {"true", "false"}
                 /\ EnsureResolve(s) <=> slots'[s].ensured = "true"
                 /\ slots'[s].ensured = "true" => ollamaClient'[svc] = ollamaClient[svc]
                 /\ slots'[s].ensured = "false"
                       => /\ ollamaClient'[svc] # ollamaClient[svc]
                          /\ ollamaClient'[svc] = NewHandle(ollamaClient[svc])
                 /\ ollamaClient'[svc] # 0]_vars

\* a request whose probe failed, the handle replaced
C17_Witness ==
    \E s \in Slots \cup Timers :
        /\ slots[s].ensured = "false"
        /\ ollamaClient[Service(slots[s])] = 2

TokensWritten(sl) ==
    LET chunks == SelectSeq(sl.events, LAMBDA e : e.type = "chunk" /\ ~e.marker)
    IN  [i \in 1..Len(chunks) |-> chunks[i].token]

\* the positions of the terminal events of a response
Terminals(sl) == {i \in 1..Len(sl.events) : sl.events[i].type \in {"done", "error"}}

C20_NothingWrittenAfterDisconnect ==
    \A s \in Slots :
        LET sl == slots[s]
        IN  sl.kind = "stream"
            => /\ \A i \in 1..Len(sl.events) :
                     sl.events[i].late => sl.events[i].type \notin {"chunk", "done"}
               /\ sl.gone => sl.llm # "ok"

\* C21: when writing the conversation file fails after the LLM produced an
\* answer, the write is tried a second time, and the request is answered 200
\* with the generated answer whether or not the second write succeeds
C21_AnswerSurvivesWriteFailure ==
    \A s \in Slots :
        LET sl == slots[s]
        IN  (sl.kind = "chat" /\ sl.pc = "done" /\ sl.llm = "ok") =>
                /\ sl.status = 200
                /\ sl.answer = "answer"
                /\ (sl.writes[1] = "failed" => Len(sl.writes) = 2)

\* C22: a queryCollection call that starts after deleteAllDocuments completed
\* is never answered from a cache entry populated by a collection.query call
\* issued before that deletion completed (in SpecDelete only deletions change
\* the collection)
C22_NoHitOnQueryIssuedBeforeDeletion ==
    \A s \in Slots :
        LET sl == slots[s]
        IN  (sl.kind = "query" /\ sl.pc = "done" /\ sl.hit /\ sl.epoch > 0) =>
                \A p \in sl.prior : p.issued >= sl.epoch

\* C23: a queryCollection call answered from the cache has the collection
\* name, result count, list of query texts and options of the call that
\* populated the entry
C23_HitOnlyForEqualArguments ==
    \A s \in Slots :
        LET sl == slots[s]
        IN  (sl.kind = "query" /\ sl.pc = "done" /\ sl.hit) =>
                \A p \in sl.prior :
                    /\ p.name = sl.name
                    /\ p.n = sl.n
                    /\ p.texts = sl.texts
                    /\ p.opts = sl.opts

\* C24: a chat request issues its LLM chat call at most once, and only when
\* its retrieval has returned or thrown; it is answered once, 200 with the
\* answer of a chat call that resolved or 500 without an answer (400 before
\* anything ran when the message is missing), and the answer of an answered
\* request does not change afterwards
C24_ChatRequestLifecycle ==
    /\ [](\A s \in Slots :
            LET sl == slots[s]
            IN  sl.kind = "chat" =>
                    /\ sl.chats <= 1
                    /\ sl.chats = 1 <=> (sl.pc = "chat" \/ sl.llm # "none")
                    /\ sl.chats = 1 => sl.out \in {"returned", "threw"}
                    /\ sl.pc = "done" =>
                          \/ sl.status = 200 /\ sl.llm = "ok" /\ sl.answer # ""
                          \/ sl.status = 500 /\ sl.llm = "failed" /\ sl.answer = ""
                          \/ sl.status = 400 /\ sl.llm = "none" /\ sl.answer = "")
    /\ [][\A s \in Slots :
            /\ (slots[s].kind = "chat" /\ slots'[s].kind = "chat"
                    /\ slots'[s].req = slots[s].req /\ slots'[s].chats > slots[s].chats)
                  => /\ slots[s].pc \in {"collection", "querying"}
                     /\ slots'[s].pc = "chat"
            /\ (slots[s].kind = "chat" /\ slots[s].pc = "done" /\ slots'[s].req = slots[s].req)
                  => slots'[s] = slots[s]]_vars

\* a chat request whose retrieval failed and whose one chat call failed: answered 500
C24_Witness ==
    \E s \in Slots :
        /\ slots[s].kind = "chat"
        /\ slots[s].pc = "done"
        /\ slots[s].out = "threw"
        /\ slots[s].chats = 1
        /\ slots[s].llm = "failed"
        /\ slots[s].status = 500

\* C25: every chat request is eventually answered, after at most 3
\* collection.query calls, even if a collection.query call stays pending
C25_ChatRequestEventuallyAnswered ==
    /\ [](\A s \in Slots : slots[s].kind = "chat" => slots[s].calls <= maxAttempts)
    /\ \A s \in Slots :
          (slots[s].kind = "chat" /\ slots[s].pc # "done") ~> (slots[s].pc = "done")

\* C26: a document the add-document endpoint answered 201 for was stored under
\* an id no other document of the index has, and two requests answered 201
\* never carry the same id
C26_AddedDocumentIdsDiffer ==
    /\ \A s \in Slots :
          (slots[s].kind = "addRoute" /\ slots[s].pc = "done" /\ slots[s].status = 201)
             => slots[s].stored
    /\ \A s, t \in Slots :
          (/\ s # t
           /\ slots[s].kind \in {"addRoute", "addDocument"} /\ slots[s].doc # ""
           /\ slots[t].kind \in {"addRoute", "addDocument"} /\ slots[t].doc # "")
             => slots[s].doc # slots[t].doc

\* no chat request is between its start and its answer
NoChatInFlight == \A s \in Slots : slots[s].kind = "chat" => slots[s].pc = "done"

\* C27: whenever no chat request is in flight, the in-memory messages of a
\* conversation alternate user, assistant, user, ... starting with user
C27_RolesAlternate ==
    NoChatInFlight =>
        \A c \in ConversationIds : \A i \in 1..Len(conversations[c]) :
            conversations[c][i].role = IF i % 2 = 1 THEN "user" ELSE "assistant"

\* the (role, content) pairs of a sequence of turns
RolesAndContents(turns) ==
    [i \in 1..Len(turns) |-> [role |-> turns[i].role, content |-> turns[i].content]]

\* C28: whenever no chat request is in flight, the conversation file and the
\* in-memory conversation hold the same sequence of (role, content) turns
\* (states whose last answered requests met a failing file write aside)
C28_FileEqualsMemory ==
    (NoChatInFlight /\ \A s \in Slots : slots[s].writes # <<"failed">>) =>
        \A c \in ConversationIds :
            RolesAndContents(files[c]) = RolesAndContents(conversations[c])

\* C29: with no clear in between, the conversation file is a sequence of
\* pairs, the user turn of a request immediately followed by its assistant
\* turn, one pair for each request answered 200 and for no other request
C29_NoLostFileUpdate ==
    \A c \in ConversationIds :
        LET file == files[c]
        IN  /\ Len(file) % 2 = 0
            /\ \A k \in 1..(Len(file) \div 2) :
                  /\ file[2 * k - 1].role = "user"
                  /\ file[2 * k].role = "assistant"
                  /\ file[2 * k].req = file[2 * k - 1].req
                  /\ \A j \in 1..(Len(file) \div 2) :
                        file[2 * j].req = file[2 * k].req => j = k
                  /\ \E i \in 1..Len(conversations[c]) :
                        /\ conversations[c][i].role = "assistant"
                        /\ conversations[c][i].req = file[2 * k].req
            /\ \A s \in Slots :
                  (slots[s].kind = "chat" /\ slots[s].conv = c /\ slots[s].status = 200) =>
                      \E k \in 1..(Len(file) \div 2) :
                          /\ file[2 * k - 1].req = slots[s].req
                          /\ file[2 * k - 1].content = slots[s].msg
                          /\ file[2 * k].content = slots[s].answer

\* two overlapping chat requests on one conversation, both answered 200
C29_Witness ==
    /\ \A s \in Slots : slots[s].kind = "chat" /\ slots[s].status = 200
    /\ \E c \in ConversationIds :
          /\ \A s \in Slots : slots[s].conv = c
          /\ Len(files[c]) >= 4
          /\ \E i, j \in 1..Len(conversations[c]) :
                /\ i < j
                /\ conversations[c][i].role = "user"
                /\ conversations[c][j].role = "user"
                /\ \A k \in i..j : conversations[c][k].role = "user"
                /\ conversations[c][i].req # conversations[c][j].req

\* C30: every call of chunkText returns, and when it has returned every chunk
\* is at most size characters long and every character of the text is in a chunk
C30_ChunkTextTerminatesAndCovers ==
    /\ (chunking.pc = "loop") ~> (chunking.pc = "returned")
    /\ [](chunking.pc = "returned" =>
            /\ \A k \in 1..Len(chunking.chunks) : Len(chunking.chunks[k]) <= chunking.size
            /\ \A i \in 1..Len(chunking.text) :
                  \E k \in 1..Len(chunking.chunks) : \E j \in 1..Len(chunking.chunks[k]) :
                      chunking.chunks[k][j] = chunking.text[i])

====
